---- MODULE Spec2Model ----
(***************************************************************************)
(* Model of src/user-status-processor.py: UserStatusProcessor.             *)
(*                                                                         *)
(* A text is a sequence of one-character strings, so that str.lower(),     *)
(* str.upper() and the literal comparisons of the code are computed        *)
(* character by character.  A CSV file is a header (a sequence of column   *)
(* names) and rows of texts; the empty text is an empty CSV field.  A      *)
(* DataFrame is what pd.read_csv makes of it: per column a dtype, per cell *)
(* a string, a parsed boolean, or NaN.                                     *)
(***************************************************************************)
EXTENDS Integers, Sequences, FiniteSets, TLC

-----------------------------------------------------------------------------
(* Bounds of the model *)

MaxRosterRows == 2
MaxTermRows == 2
MaxShortRows == 1
MaxOutRows == 2
MaxNinjoRows == 1
MaxLiveRows == 1

-----------------------------------------------------------------------------
(* Texts *)

Range(s) == {s[i] : i \in DOMAIN s}

SeqUpTo(S, n) == UNION {[1..k -> S] : k \in 0..n}

lowerAlpha ==
    <<"a","b","c","d","e","f","g","h","i","j","k","l","m",
      "n","o","p","q","r","s","t","u","v","w","x","y","z">>

upperAlpha ==
    <<"A","B","C","D","E","F","G","H","I","J","K","L","M",
      "N","O","P","Q","R","S","T","U","V","W","X","Y","Z">>

\* The letters that change under str.lower() and str.upper()
LowerOf == [c \in Range(upperAlpha) |-> lowerAlpha[CHOOSE i \in 1..26 : upperAlpha[i] = c]]

UpperOf == [c \in Range(lowerAlpha) |-> upperAlpha[CHOOSE i \in 1..26 : lowerAlpha[i] = c]]

LowerChar(c) == IF c \in DOMAIN LowerOf THEN LowerOf[c] ELSE c

UpperChar(c) == IF c \in DOMAIN UpperOf THEN UpperOf[c] ELSE c

\* str.lower() / str.upper() of one Python string
Lower(s) == [i \in DOMAIN s |-> LowerChar(s[i])]

Upper(s) == [i \in DOMAIN s |-> UpperChar(s[i])]

\* The literals of the code
LitFALSE == <<"F","A","L","S","E">>

LitTerminated == <<"T","e","r","m","i","n","a","t","e","d">>

LitTRUE == <<"T","R","U","E">>

\* pd.read_csv (C parser) reads a field as a boolean when it is "true" or
\* "false" in any letter case
IsBoolText(x) == Upper(x) \in {LitTRUE, LitFALSE}

-----------------------------------------------------------------------------
(* Cells and DataFrames *)

Str(s) == [t |-> "str", s |-> s]

Bool(b) == [t |-> "bool", b |-> b]

NaN == [t |-> "nan"]

IsNull(cell) == cell.t = "nan"

\* The column c of a frame, as the sequence of its cells
Column(df, c) == [i \in DOMAIN df.rows |-> df.rows[i][c]]

HasColumn(df, c) == c \in Range(df.columns)

\* The rows of df at the positions where mask holds, in their original order
RECURSIVE SelectRows(_, _)
SelectRows(rows, mask) ==
    IF rows = <<>> THEN <<>>
    ELSE LET rest == SelectRows(Tail(rows), Tail(mask))
         IN  IF Head(mask) THEN <<Head(rows)>> \o rest ELSE rest

\* The dtype pd.read_csv infers for a column of texts
InferDtype(texts) ==
    IF texts = <<>> THEN "object"
    ELSE IF \A i \in DOMAIN texts : texts[i] = <<>> THEN "float64"
    ELSE IF \A i \in DOMAIN texts : IsBoolText(texts[i]) THEN "bool"
    ELSE "object"

\* Whether pd.read_csv reads the non-empty fields of a column as booleans
ParsedAsBool(texts) == \A i \in DOMAIN texts : texts[i] = <<>> \/ IsBoolText(texts[i])

\* The cell pd.read_csv makes of one text
ParseCell(asBool, x) ==
    IF x = <<>> THEN NaN
    ELSE IF asBool THEN Bool(Upper(x) = LitTRUE)
    ELSE Str(x)

NoFile == [kind |-> "missing"]

CsvFile(columns, rows) == [kind |-> "csv", columns |-> columns, rows |-> rows]

None == [kind |-> "None"]

\* pd.read_csv: header kept, each column converted as a whole
ParseCsv(file) ==
    LET texts  == [c \in Range(file.columns) |->
                      [i \in DOMAIN file.rows |-> file.rows[i][c]]]
        asBool == [c \in Range(file.columns) |-> ParsedAsBool(texts[c])]
    IN  [kind    |-> "df",
         columns |-> file.columns,
         dtype   |-> [c \in Range(file.columns) |-> InferDtype(texts[c])],
         rows    |-> [i \in DOMAIN file.rows |->
                        [c \in Range(file.columns) |-> ParseCell(asBool[c], file.rows[i][c])]]]

\* read_csv_file: the frame, or None when reading raises
read_csv_file(file) == IF file.kind = "csv" THEN ParseCsv(file) ELSE None

\* Whether series.str is available: pandas requires an object column whose
\* non-null values are strings (or that has none)
StrAccessorOK(df, rows, c) ==
    /\ df.dtype[c] = "object"
    /\ \A i \in DOMAIN rows : rows[i][c].t \in {"str", "nan"}

\* series.str.lower() / series.str.upper() on one cell: NaN stays NaN
CellLower(cell) == IF cell.t = "str" THEN Str(Lower(cell.s)) ELSE NaN

\* Mutant: the upper-casing of lines 67 and 128 left out
CellUpperIdentity(cell) == cell

CellUpper(cell) == IF cell.t = "str" THEN Str(Upper(cell.s)) ELSE NaN

\* series == 'literal' on one cell
CellEq(cell, lit) == cell.t = "str" /\ cell.s = lit

-----------------------------------------------------------------------------
(* Results of a step that may raise *)

Raised(e) == [kind |-> "raised", error |-> e]

Returned(v) == [kind |-> "ok", value |-> v]

KeyError == "KeyError"

AttributeError == "AttributeError: Can only use .str accessor with string values!"

OSError == "OSError"

-----------------------------------------------------------------------------
(* Lines 119-124: the set of lowercased Work Emails of the Terminated rows *)

\* Mutant: the Employment Status filter of line 122 dropped
TerminatedRowsAll(terminations_df) == terminations_df.rows

TerminatedRows(terminations_df) ==
    SelectRows(terminations_df.rows,
               [i \in DOMAIN terminations_df.rows |->
                   CellEq(terminations_df.rows[i]["Employment Status"], LitTerminated)])

BuildTerminatedEmails(terminations_df) ==
    IF ~HasColumn(terminations_df, "Employment Status") THEN Raised(KeyError)
    ELSE IF ~HasColumn(terminations_df, "Work Email") THEN Raised(KeyError)
    ELSE LET rows == TerminatedRows(terminations_df)
         IN  IF ~StrAccessorOK(terminations_df, rows, "Work Email")
             THEN Raised(AttributeError)
             ELSE Returned({CellLower(rows[i]["Work Email"]) : i \in DOMAIN rows} \ {NaN})

-----------------------------------------------------------------------------
(* Lines 126-142: reconciliation *)

output_columns ==
    <<"first_name", "last_name", "email", "country", "department", "branch",
      "phone", "manager", "job_title", "group", "active">>

\* df[name] = values: a new last column, or an existing one overwritten
WithColumn(df, name, dtype, values) ==
    [df EXCEPT
        !.columns = IF name \in Range(df.columns) THEN df.columns
                    ELSE Append(df.columns, name),
        !.dtype   = [c \in Range(df.columns) \cup {name} |->
                        IF c = name THEN dtype ELSE df.dtype[c]],
        !.rows    = [i \in DOMAIN df.rows |->
                        [c \in Range(df.columns) \cup {name} |->
                            IF c = name THEN values[i] ELSE df.rows[i][c]]]]

\* Lines 127-128: the shadow columns email_lower and active_upper
Normalize(ninjo_df) ==
    IF ~HasColumn(ninjo_df, "email") THEN Raised(KeyError)
    ELSE IF ~StrAccessorOK(ninjo_df, ninjo_df.rows, "email") THEN Raised(AttributeError)
    ELSE IF ~HasColumn(ninjo_df, "active") THEN Raised(KeyError)
    ELSE IF ~StrAccessorOK(ninjo_df, ninjo_df.rows, "active") THEN Raised(AttributeError)
    ELSE LET lower == [i \in DOMAIN ninjo_df.rows |-> CellLower(ninjo_df.rows[i]["email"])]
             upper == [i \in DOMAIN ninjo_df.rows |-> CellUpper(ninjo_df.rows[i]["active"])]
         IN  Returned(WithColumn(WithColumn(ninjo_df, "email_lower", "object", lower),
                                 "active_upper", "object", upper))

\* Mutant: the active_upper condition of line 132 dropped
NewInactiveMaskAnyStatus(ninjo_df, terminated_emails) ==
    [i \in DOMAIN ninjo_df.rows |-> ninjo_df.rows[i]["email_lower"] \in terminated_emails]

\* Lines 131-134: the mask of the rows to inactivate
NewInactiveMask(ninjo_df, terminated_emails) ==
    [i \in DOMAIN ninjo_df.rows |->
        /\ ~CellEq(ninjo_df.rows[i]["active_upper"], LitFALSE)
        /\ ninjo_df.rows[i]["email_lower"] \in terminated_emails]

NewInactive(ninjo_df, terminated_emails) ==
    [ninjo_df EXCEPT !.rows = SelectRows(ninjo_df.rows,
                                         NewInactiveMask(ninjo_df, terminated_emails))]

\* Mutant: a projection that keeps the columns present instead of raising
ProjectPresent(new_inactive) ==
    LET present == SelectSeq(output_columns, LAMBDA c : HasColumn(new_inactive, c))
        projected ==
            [kind    |-> "df",
             columns |-> present,
             dtype   |-> [c \in Range(present) |-> new_inactive.dtype[c]],
             rows    |-> [i \in DOMAIN new_inactive.rows |->
                            [c \in Range(present) |-> new_inactive.rows[i][c]]]]
    IN  Returned(WithColumn(projected, "active", "object",
                            [i \in DOMAIN projected.rows |-> Str(LitFALSE)]))

\* Lines 137-142: projection on the output columns, active forced to 'FALSE'
Project(new_inactive) ==
    IF \E c \in Range(output_columns) : ~HasColumn(new_inactive, c) THEN Raised(KeyError)
    ELSE LET projected ==
                 [kind    |-> "df",
                  columns |-> output_columns,
                  dtype   |-> [c \in Range(output_columns) |-> new_inactive.dtype[c]],
                  rows    |-> [i \in DOMAIN new_inactive.rows |->
                                 [c \in Range(output_columns) |-> new_inactive.rows[i][c]]]]
         IN  Returned(WithColumn(projected, "active", "object",
                                 [i \in DOMAIN projected.rows |-> Str(LitFALSE)]))

-----------------------------------------------------------------------------
(* Lines 45-94: validate_data *)

required_columns == output_columns

critical_fields == <<"email", "first_name", "last_name", "active">>

MsgDuplicates == [text |-> "El output contiene emails duplicados"]

MsgInactive(overlap) ==
    [text |-> "El output contiene usuarios que ya estaban inactivos", emails |-> overlap]

MsgNotTerminated(not_terminated) ==
    [text |-> "El output contiene usuarios que no estan en la lista de terminados",
     emails |-> not_terminated]

MsgMissing(missing) ==
    [text |-> "Faltan columnas requeridas en el output", columns |-> missing]

MsgActive == [text |-> "Algunos registros no tienen 'FALSE' en el campo active"]

MsgNull(field) == [text |-> "Hay valores nulos en el campo critico", field |-> field]

MsgOk == [text |-> "Validacion exitosa"]

MsgError(e) == [text |-> "Error durante la validacion", error |-> e]

\* Line 62: series.duplicated().any(); missing values count as equal
HasDuplicates(series) ==
    \E i, j \in DOMAIN series : i < j /\ series[i] = series[j]

\* Line 66: set(output_df['email'].str.lower())
OutputEmails(output_df) ==
    {CellLower(output_df.rows[i]["email"]) : i \in DOMAIN output_df.rows}

\* Line 67: the rows of Ninjo whose active is FALSE in any letter case
NinjoInactiveRows(ninjo_df) ==
    SelectRows(ninjo_df.rows,
               [i \in DOMAIN ninjo_df.rows |->
                   CellEq(CellUpper(ninjo_df.rows[i]["active"]), LitFALSE)])

NinjoInactive(ninjo_df) ==
    LET rows == NinjoInactiveRows(ninjo_df)
    IN  {CellLower(rows[i]["email"]) : i \in DOMAIN rows}

\* The critical fields, by their position in line 86, that hold a null
NullFields(output_df) ==
    {k \in DOMAIN critical_fields :
        \E i \in DOMAIN output_df.rows : IsNull(output_df.rows[i][critical_fields[k]])}

FirstNullField(output_df) ==
    critical_fields[CHOOSE k \in NullFields(output_df) :
                        \A m \in NullFields(output_df) : k <= m]

\* Mutant: rule 6 left out
ValidateSchemaNoNulls(output_df) ==
    LET missing == Range(required_columns) \ Range(output_df.columns)
    IN  IF missing # {} THEN <<FALSE, MsgMissing(missing)>>
        ELSE IF \E i \in DOMAIN output_df.rows :
                    ~CellEq(output_df.rows[i]["active"], LitFALSE)
             THEN <<FALSE, MsgActive>>
        ELSE <<TRUE, MsgOk>>

\* Mutant: rule 6 evaluated before rule 5
ValidateSchemaNullsFirst(output_df) ==
    LET missing == Range(required_columns) \ Range(output_df.columns)
    IN  IF missing # {} THEN <<FALSE, MsgMissing(missing)>>
        ELSE IF NullFields(output_df) # {}
             THEN <<FALSE, MsgNull(FirstNullField(output_df))>>
        ELSE IF \E i \in DOMAIN output_df.rows :
                    ~CellEq(output_df.rows[i]["active"], LitFALSE)
             THEN <<FALSE, MsgActive>>
        ELSE <<TRUE, MsgOk>>

\* Rules 4 to 6 (lines 75-91)
ValidateSchema(output_df) ==
    LET missing == Range(required_columns) \ Range(output_df.columns)
    IN  IF missing # {} THEN <<FALSE, MsgMissing(missing)>>
        ELSE IF \E i \in DOMAIN output_df.rows :
                    ~CellEq(output_df.rows[i]["active"], LitFALSE)
             THEN <<FALSE, MsgActive>>
        ELSE IF NullFields(output_df) # {}
             THEN <<FALSE, MsgNull(FirstNullField(output_df))>>
        ELSE <<TRUE, MsgOk>>

\* Rules 2 and 3 (lines 65-73), then the rest
ValidateMembership(ninjo_df, output_df, terminated_emails) ==
    IF ~StrAccessorOK(output_df, output_df.rows, "email")
    THEN <<FALSE, MsgError(AttributeError)>>
    ELSE IF ~HasColumn(ninjo_df, "active") THEN <<FALSE, MsgError(KeyError)>>
    ELSE IF ~StrAccessorOK(ninjo_df, ninjo_df.rows, "active")
         THEN <<FALSE, MsgError(AttributeError)>>
    ELSE IF ~HasColumn(ninjo_df, "email") THEN <<FALSE, MsgError(KeyError)>>
    ELSE IF ~StrAccessorOK(ninjo_df, NinjoInactiveRows(ninjo_df), "email")
         THEN <<FALSE, MsgError(AttributeError)>>
    ELSE LET output_emails == OutputEmails(output_df)
             overlap == output_emails \cap NinjoInactive(ninjo_df)
             not_terminated == output_emails \ terminated_emails
         IN  IF overlap # {} THEN <<FALSE, MsgInactive(overlap)>>
             ELSE IF not_terminated # {} THEN <<FALSE, MsgNotTerminated(not_terminated)>>
             ELSE ValidateSchema(output_df)

\* validate_data: rule 1 (lines 61-63), then the rest; any exception is
\* turned into a failure by line 93
validate_data(ninjo_df, output_df, terminated_emails) ==
    IF ~HasColumn(output_df, "email") THEN <<FALSE, MsgError(KeyError)>>
    ELSE IF HasDuplicates(Column(output_df, "email")) THEN <<FALSE, MsgDuplicates>>
    ELSE ValidateMembership(ninjo_df, output_df, terminated_emails)

-----------------------------------------------------------------------------
(* Line 161: DataFrame.to_csv(index=False) *)

CellText(cell) ==
    IF cell.t = "str" THEN cell.s
    ELSE IF cell.t = "bool"
         THEN (IF cell.b THEN <<"T","r","u","e">> ELSE <<"F","a","l","s","e">>)
    ELSE <<>>

to_csv(df) ==
    CsvFile(df.columns,
            [i \in DOMAIN df.rows |-> [c \in Range(df.columns) |-> CellText(df.rows[i][c])]])

-----------------------------------------------------------------------------
(* The input files of a run *)

alice == <<"a","@","x">>

ALICE == <<"A","@","X">>

bob == <<"b","@","x">>

RosterHeader == <<"id">> \o output_columns

\* A roster export without the branch column
RosterHeaderShort == SelectSeq(RosterHeader, LAMBDA c : c # "branch")

RosterRow(e, a, f) ==
    [c \in Range(RosterHeader) |->
        CASE c = "email"      -> e
          [] c = "active"     -> a
          [] c = "first_name" -> f
          [] c = "last_name"  -> <<"D">>
          [] c = "id"         -> <<"u">>
          [] OTHER            -> <<"x">>]

LitYes == <<"y","e","s">>

\* The roster rows of the model: active is free text, so a user is active
\* with "TRUE" or with "yes".  In order: two active users with the same email
\* and a third with that email in capitals; an inactive one (lower case) and
\* one whose "FALSE" carries a trailing blank, with that email too; a user
\* without email; another user, with and without first name
RosterRows ==
    { RosterRow(alice, LitTRUE, <<"n">>),
      RosterRow(alice, LitYes, <<"n">>),
      RosterRow(ALICE, LitYes, <<"n">>),
      RosterRow(ALICE, <<"f","a","l","s","e">>, <<"n">>),
      RosterRow(alice, LitFALSE \o <<" ">>, <<"n">>),
      RosterRow(<<>>, LitYes, <<"n">>),
      RosterRow(bob, LitYes, <<"n">>),
      RosterRow(bob, LitYes, <<>>) }

TermHeader == <<"Work Email", "Employment Status">>

\* A feed without the Work Email column
TermHeaderShort == <<"Employment Status">>

TermRow(e, st) == [c \in Range(TermHeader) |-> IF c = "Work Email" THEN e ELSE st]

LitResigned == <<"R","e","s","i","g","n","e","d">>

TermRows ==
    { TermRow(ALICE, LitTerminated),
      TermRow(bob, LitTerminated),
      TermRow(bob, LitResigned),
      TermRow(<<>>, LitTerminated) }

Restrict(row, header) == [c \in Range(header) |-> row[c]]

CsvFiles(header, rows, n) ==
    {CsvFile(header, [i \in DOMAIN rs |-> Restrict(rs[i], header)]) : rs \in SeqUpTo(rows, n)}

RosterFiles ==
    {NoFile} \cup CsvFiles(RosterHeader, RosterRows, MaxRosterRows)
             \cup CsvFiles(RosterHeaderShort, RosterRows, MaxShortRows)

TermFiles ==
    {NoFile} \cup CsvFiles(TermHeader, TermRows, MaxTermRows)
             \cup CsvFiles(TermHeaderShort, TermRows, MaxShortRows)

-----------------------------------------------------------------------------
(* process_files, lines 96-174 *)

VARIABLES
    ninjo_file,          \* the roster file on disk
    terminations_file,   \* the termination feed on disk
    output_file,         \* the output file on disk
    pc,                  \* the position of process_files
    ninjo_df,
    terminations_df,
    terminated_emails,   \* the empty set until line 120 assigns it
    output_df,
    validation,          \* (is_valid, validation_message)
    log,                 \* the error records logged so far
    result               \* Returned(v) once process_files has returned v

vars ==
    <<ninjo_file, terminations_file, output_file, pc, ninjo_df, terminations_df,
      terminated_emails, output_df, validation, log, result>>

Unset == [kind |-> "unset"]

LogRead == [text |-> "Error al leer el archivo"]

LogValidation(message) == [text |-> "Error de validacion", message |-> message]

LogProcessing(e) == [text |-> "Error durante el procesamiento", error |-> e]

Init ==
    /\ ninjo_file \in RosterFiles
    /\ terminations_file \in TermFiles
    /\ output_file = NoFile
    /\ pc = "start"
    /\ ninjo_df = Unset
    /\ terminations_df = Unset
    /\ terminated_emails = {}
    /\ output_df = Unset
    /\ validation = Unset
    /\ log = <<>>
    /\ result = Unset

\* Mutant: a handler that logs and falls through without returning False
ExceptNoReturn(e) ==
    /\ log' = Append(log, LogProcessing(e))
    /\ pc' = "done"
    /\ UNCHANGED result

\* Lines 172-174: the outermost handler
Except(e) ==
    /\ log' = Append(log, LogProcessing(e))
    /\ result' = Returned(FALSE)
    /\ pc' = "done"

\* Lines 113-114 (and 36-43): both files are read before either is looked at
ReadFiles ==
    /\ pc = "start"
    /\ ninjo_df' = read_csv_file(ninjo_file)
    /\ terminations_df' = read_csv_file(terminations_file)
    /\ log' = log \o (IF ninjo_file.kind = "csv" THEN <<>> ELSE <<LogRead>>)
                  \o (IF terminations_file.kind = "csv" THEN <<>> ELSE <<LogRead>>)
    /\ pc' = "read"
    /\ UNCHANGED <<ninjo_file, terminations_file, output_file, terminated_emails,
                   output_df, validation, result>>

\* Lines 116-117
InputsMissing ==
    /\ pc = "read"
    /\ ninjo_df = None \/ terminations_df = None
    /\ result' = Returned(FALSE)
    /\ pc' = "done"
    /\ UNCHANGED <<ninjo_file, terminations_file, output_file, ninjo_df,
                   terminations_df, terminated_emails, output_df, validation, log>>

\* Lines 119-124
BuildTerminationSet ==
    /\ pc = "read"
    /\ ninjo_df # None /\ terminations_df # None
    /\ \E built \in {BuildTerminatedEmails(terminations_df)} :
          IF built.kind = "raised"
          THEN /\ Except(built.error)
               /\ UNCHANGED terminated_emails
          ELSE /\ terminated_emails' = built.value
               /\ pc' = "terminated"
               /\ UNCHANGED <<log, result>>
    /\ UNCHANGED <<ninjo_file, terminations_file, output_file, ninjo_df,
                   terminations_df, output_df, validation>>

\* Lines 126-142
Reconcile ==
    /\ pc = "terminated"
    /\ \E normalized \in {Normalize(ninjo_df)} :
          IF normalized.kind = "raised"
          THEN /\ Except(normalized.error)
               /\ UNCHANGED <<ninjo_df, output_df>>
          ELSE \E new_inactive \in {NewInactive(normalized.value, terminated_emails)} :
               \E projected \in {Project(new_inactive)} :
                  /\ ninjo_df' = normalized.value
                  /\ IF projected.kind = "raised"
                     THEN /\ Except(projected.error)
                          /\ UNCHANGED output_df
                     ELSE /\ output_df' = projected.value
                          /\ pc' = "candidate"
                          /\ UNCHANGED <<log, result>>
    /\ UNCHANGED <<ninjo_file, terminations_file, output_file, terminations_df,
                   terminated_emails, validation>>

\* Lines 144-147
Validate ==
    /\ pc = "candidate"
    /\ validation' = validate_data(ninjo_df, output_df, terminated_emails)
    /\ pc' = "validated"
    /\ UNCHANGED <<ninjo_file, terminations_file, output_file, ninjo_df,
                   terminations_df, terminated_emails, output_df, log, result>>

\* Mutant: the write no longer waits for is_valid
MayWriteAlways(v) == TRUE

\* Whether line 149 lets the run go on to the write
MayWrite(v) == v[1]

\* Lines 149-151
RejectInvalid ==
    /\ pc = "validated"
    /\ ~MayWrite(validation)
    /\ log' = Append(log, LogValidation(validation[2]))
    /\ result' = Returned(FALSE)
    /\ pc' = "done"
    /\ UNCHANGED <<ninjo_file, terminations_file, output_file, ninjo_df,
                   terminations_df, terminated_emails, output_df, validation>>

\* Lines 153-170: the file is written and True returned
WriteOutput ==
    /\ pc = "validated"
    /\ MayWrite(validation)
    /\ output_file' = to_csv(output_df)
    /\ result' = Returned(TRUE)
    /\ pc' = "done"
    /\ UNCHANGED <<ninjo_file, terminations_file, ninjo_df, terminations_df,
                   terminated_emails, output_df, validation, log>>

\* Line 161 raising because the output path cannot be opened: nothing is
\* written and the outermost handler returns False
WriteFails ==
    /\ pc = "validated"
    /\ MayWrite(validation)
    /\ Except(OSError)
    /\ UNCHANGED <<ninjo_file, terminations_file, output_file, ninjo_df,
                   terminations_df, terminated_emails, output_df, validation>>

Next ==
    \/ ReadFiles
    \/ InputsMissing
    \/ BuildTerminationSet
    \/ Reconcile
    \/ Validate
    \/ RejectInvalid
    \/ WriteOutput
    \/ WriteFails

Spec == Init /\ [][Next]_vars

\* The files of at most MaxLiveRows rows: no stage of process_files loops
\* over anything but the rows inside one pandas call, so whether a run ends
\* does not depend on how many rows the files hold
ShortFile(f) == f.kind = "csv" => Len(f.rows) <= MaxLiveRows

InitLive ==
    /\ Init
    /\ ShortFile(ninjo_file)
    /\ ShortFile(terminations_file)

\* process_files runs in one thread, without suspension points: a run that
\* can take a step takes it
FairSpec == InitLive /\ [][Next]_vars /\ WF_vars(Next)

-----------------------------------------------------------------------------
(* validate_data called on its own, on frames a caller may pass: an output  *)
(* candidate with or without the email or branch column, a roster with or   *)
(* without the email or active column, a set of terminated emails           *)

\* A frame of string and missing cells; a column of missing cells only is float64
Frame(columns, rows) ==
    [kind    |-> "df",
     columns |-> columns,
     dtype   |-> [c \in Range(columns) |->
                    IF rows # <<>> /\ \A i \in DOMAIN rows : IsNull(rows[i][c])
                    THEN "float64" ELSE "object"],
     rows    |-> [i \in DOMAIN rows |-> [c \in Range(columns) |-> rows[i][c]]]]

OutRow(e, a, f) ==
    [c \in Range(output_columns) |->
        CASE c = "email"      -> Str(e)
          [] c = "active"     -> Str(a)
          [] c = "first_name" -> f
          [] OTHER            -> Str(<<"x">>)]

OutRowsV ==
    {OutRow(e, a, f) : e \in {alice, ALICE},
                       a \in {LitFALSE, <<"f","a","l","s","e">>},
                       f \in {Str(<<"n">>), NaN}}

OutHeadersV ==
    {output_columns,
     SelectSeq(output_columns, LAMBDA c : c # "email"),
     SelectSeq(output_columns, LAMBDA c : c # "branch")}

NinjoRowsV ==
    {[email |-> Str(ALICE), active |-> Str(<<"f","a","l","s","e">>)],
     [email |-> Str(alice), active |-> Str(LitYes)]}

NinjoHeadersV == {<<"email", "active">>, <<"email">>, <<"active">>}

InitV ==
    /\ ninjo_file = NoFile
    /\ terminations_file = NoFile
    /\ output_file = NoFile
    /\ pc = "call"
    /\ ninjo_df \in {Frame(h, rs) : h \in NinjoHeadersV, rs \in SeqUpTo(NinjoRowsV, MaxNinjoRows)}
    /\ terminations_df = Unset
    /\ terminated_emails \in SUBSET {Str(alice)}
    /\ output_df \in {Frame(h, rs) : h \in OutHeadersV, rs \in SeqUpTo(OutRowsV, MaxOutRows)}
    /\ validation = Unset
    /\ log = <<>>
    /\ result = Unset

ValidateCall ==
    /\ pc = "call"
    /\ validation' = validate_data(ninjo_df, output_df, terminated_emails)
    /\ pc' = "returned"
    /\ UNCHANGED <<ninjo_file, terminations_file, output_file, ninjo_df,
                   terminations_df, terminated_emails, output_df, log, result>>

NextV == ValidateCall

SpecV == InitV /\ [][NextV]_vars

-----------------------------------------------------------------------------
(* What the properties speak of, read off the files on disk *)

Written == output_file.kind = "csv"

RosterRead == ninjo_file.kind = "csv"

FeedRead ==
    /\ terminations_file.kind = "csv"
    /\ Range(TermHeader) \subseteq Range(terminations_file.columns)

\* The output columns the roster file lacks
RosterLacks ==
    IF RosterRead THEN Range(output_columns) \ Range(ninjo_file.columns) ELSE {}

\* The Termination Set: the lowercased Work Emails of the feed rows whose
\* Employment Status is exactly "Terminated"
TerminationSet ==
    IF FeedRead
    THEN {Lower(terminations_file.rows[i]["Work Email"]) :
             i \in {j \in DOMAIN terminations_file.rows :
                      terminations_file.rows[j]["Employment Status"] = LitTerminated}}
         \ {<<>>}
    ELSE {}

\* The lowercased emails of the rows of the written file
WrittenEmails ==
    {Lower(output_file.rows[i]["email"]) : i \in DOMAIN output_file.rows}

\* The emails of the candidate output, as texts
CandidateEmails ==
    [i \in DOMAIN output_df.rows |-> CellText(output_df.rows[i]["email"])]

LastLog == log[Len(log)]

\* Normalisation (lines 127-128) was reached and did not raise
Normalized == ninjo_df.kind = "df" /\ HasColumn(ninjo_df, "active_upper")

-----------------------------------------------------------------------------
(* C1 *)

\* C1: the output file is written only after validate_data passed the
\* candidate that is written; a run that ends on a read failure, a validation
\* failure or a caught exception has written no file.
C1_WriteAfterValidation ==
    /\ Written =>
          /\ validation # Unset
          /\ validation[1]
          /\ validation = validate_data(ninjo_df, output_df, terminated_emails)
          /\ output_file = to_csv(output_df)
    /\ ( /\ pc = "done"
         /\ \/ ninjo_df = None
            \/ terminations_df = None
            \/ (validation # Unset /\ ~validation[1])
            \/ \E k \in DOMAIN log : log[k].text = LogProcessing(KeyError).text )
       => ~Written

\* A run that validated a non-empty candidate and wrote it
C1_Witness ==
    /\ Written
    /\ validation # Unset
    /\ validation[1]
    /\ output_file.rows # <<>>

-----------------------------------------------------------------------------
(* C2 *)

RosterInactiveExcluded ==
    \A i \in DOMAIN ninjo_file.rows :
        Upper(ninjo_file.rows[i]["active"]) = LitFALSE
            => Lower(ninjo_file.rows[i]["email"]) \notin WrittenEmails

\* C2 as claimed: no written row carries the email of a roster row whose
\* active is "FALSE" in any letter case, nor the Work Email of a feed row
\* whose Employment Status is not exactly "Terminated".
C2_Original ==
    Written =>
        /\ RosterInactiveExcluded
        /\ \A j \in DOMAIN terminations_file.rows :
              terminations_file.rows[j]["Employment Status"] # LitTerminated
                  => Lower(terminations_file.rows[j]["Work Email"]) \notin WrittenEmails

\* C2 amended: no written row carries the email of a roster row whose active
\* is "FALSE" in any letter case, nor the Work Email of a feed row whose
\* Employment Status is not exactly "Terminated", unless that Work Email is
\* also the Work Email (in lowercase) of a row that is exactly "Terminated".
C2_Amended ==
    Written =>
        /\ RosterInactiveExcluded
        /\ \A j \in DOMAIN terminations_file.rows :
              ( /\ terminations_file.rows[j]["Employment Status"] # LitTerminated
                /\ Lower(terminations_file.rows[j]["Work Email"]) \notin TerminationSet )
                  => Lower(terminations_file.rows[j]["Work Email"]) \notin WrittenEmails

\* A file was written although the roster holds an inactive user who is in
\* the Termination Set and a user whose only feed row is not "Terminated"
C2_Witness ==
    /\ Written
    /\ \E i \in DOMAIN ninjo_file.rows :
          /\ Upper(ninjo_file.rows[i]["active"]) = LitFALSE
          /\ Lower(ninjo_file.rows[i]["email"]) \in TerminationSet
    /\ \E i \in DOMAIN ninjo_file.rows, j \in DOMAIN terminations_file.rows :
          /\ terminations_file.rows[j]["Employment Status"] # LitTerminated
          /\ Lower(terminations_file.rows[j]["Work Email"]) \notin TerminationSet
          /\ Lower(terminations_file.rows[j]["Work Email"]) = Lower(ninjo_file.rows[i]["email"])
          /\ Upper(ninjo_file.rows[i]["active"]) # LitFALSE

-----------------------------------------------------------------------------
(* C3 *)

\* C3: after a run that returned True, the lowercased emails of the written
\* rows all belong to the Termination Set.
C3_OutputSubset ==
    result = Returned(TRUE) => (Written /\ WrittenEmails \subseteq TerminationSet)

\* A successful run that wrote a user and left out a roster user who is not
\* in the Termination Set
C3_Witness ==
    /\ result = Returned(TRUE)
    /\ output_file.rows # <<>>
    /\ \E i \in DOMAIN ninjo_file.rows :
          /\ ninjo_file.rows[i]["email"] # <<>>
          /\ Lower(ninjo_file.rows[i]["email"]) \notin TerminationSet

-----------------------------------------------------------------------------
(* C4 *)

\* C4: every row of a written file has active = "FALSE", carries the 11
\* required columns and has a non-empty email, first_name, last_name and
\* active.
C4_OutputRows ==
    Written =>
        /\ output_file.columns = output_columns
        /\ \A i \in DOMAIN output_file.rows :
              /\ DOMAIN output_file.rows[i] = Range(required_columns)
              /\ output_file.rows[i]["active"] = LitFALSE
              /\ \A k \in DOMAIN critical_fields :
                    output_file.rows[i][critical_fields[k]] # <<>>

\* A written file with a row whose roster active was not "FALSE"
C4_Witness ==
    /\ Written
    /\ \E i \in DOMAIN output_file.rows, k \in DOMAIN ninjo_file.rows :
          /\ ninjo_file.rows[k]["email"] = output_file.rows[i]["email"]
          /\ ninjo_file.rows[k]["active"] # LitFALSE
          /\ "id" \in DOMAIN ninjo_file.rows[k]

-----------------------------------------------------------------------------
(* C5 *)

-----------------------------------------------------------------------------
(* C6 *)

RECURSIVE TrimLeft(_)
TrimLeft(s) == IF s # <<>> /\ Head(s) = " " THEN TrimLeft(Tail(s)) ELSE s

RECURSIVE TrimRight(_)
TrimRight(s) ==
    IF s # <<>> /\ s[Len(s)] = " " THEN TrimRight(SubSeq(s, 1, Len(s) - 1)) ELSE s

\* The trimmed string form of a field
Trim(s) == TrimRight(TrimLeft(s))

\* The Termination Set over trimmed Work Email and Employment Status
TrimmedTerminationSet ==
    {Lower(Trim(terminations_file.rows[i]["Work Email"])) :
        i \in {j \in DOMAIN terminations_file.rows :
                 Trim(terminations_file.rows[j]["Employment Status"]) = LitTerminated}}
    \ {<<>>}

\* The roster rows selected when email and active are compared trimmed
TrimmedSelection ==
    SelectSeq(ninjo_file.rows,
              LAMBDA r : /\ Upper(Trim(r["active"])) # LitFALSE
                         /\ Lower(Trim(r["email"])) \in TrimmedTerminationSet)

\* Every field of the four compared columns is empty or a plain string, and
\* each column has a string in it
ComparedFieldsPlain ==
    /\ RosterRead /\ FeedRead /\ RosterLacks = {}
    /\ \E i \in DOMAIN ninjo_file.rows : ~IsBoolText(ninjo_file.rows[i]["active"])
    /\ \E i \in DOMAIN ninjo_file.rows : ninjo_file.rows[i]["email"] # <<>>

\* C6: email, active, Work Email and Employment Status are compared in their
\* trimmed string form, so the rows selected are those selected on the
\* trimmed fields.
C6_TrimmedComparison ==
    pc = "candidate" =>
        CandidateEmails = [i \in DOMAIN TrimmedSelection |-> TrimmedSelection[i]["email"]]

\* The second half of C6: a missing value in the compared fields raises no
\* error.
C6_NoMissingValueError ==
    (pc = "done" /\ ComparedFieldsPlain) =>
        \A k \in DOMAIN log : log[k] # LogProcessing(AttributeError)

-----------------------------------------------------------------------------
(* C8 *)

\* The rows the roster file contributes: active not "FALSE" in upper case,
\* email in lower case in the Termination Set; in file order
ExpectedSelection ==
    SelectSeq(ninjo_file.rows,
              LAMBDA r : /\ Upper(r["active"]) # LitFALSE
                         /\ Lower(r["email"]) \in TerminationSet)

ExpectedCandidate ==
    CsvFile(output_columns,
            [i \in DOMAIN ExpectedSelection |->
                [c \in Range(output_columns) |->
                    IF c = "active" THEN LitFALSE ELSE ExpectedSelection[i][c]]])

\* C8: the candidate output is exactly the roster rows whose uppercased
\* active is not "FALSE" and whose lowercased email is in the Termination
\* Set, each once, in roster order, on the 11 output columns, active "FALSE".
C8_Candidate ==
    output_df # Unset => to_csv(output_df) = ExpectedCandidate

\* A candidate that keeps some roster rows and drops others
C8_Witness ==
    /\ pc = "candidate"
    /\ output_df.rows # <<>>
    /\ Len(output_df.rows) < Len(ninjo_file.rows)

-----------------------------------------------------------------------------
(* C9 *)

\* Two roster rows with the same email, both active and terminated
RosterDuplicate ==
    /\ RosterRead /\ FeedRead /\ RosterLacks = {}
    /\ \E i, j \in DOMAIN ninjo_file.rows :
          /\ i < j
          /\ ninjo_file.rows[i]["email"] = ninjo_file.rows[j]["email"]
          /\ Lower(ninjo_file.rows[i]["email"]) \in TerminationSet
          /\ Upper(ninjo_file.rows[i]["active"]) # LitFALSE
          /\ Upper(ninjo_file.rows[j]["active"]) # LitFALSE

\* C9: rule 1 rejects the candidate exactly when two of its rows hold the
\* same email string, and a roster with two active, terminated rows of the
\* same email makes the run fail with the duplicate-emails reason.
C9_DuplicateRule ==
    /\ validation # Unset =>
          ( (validation[2] = MsgDuplicates)
              <=> \E i, j \in DOMAIN output_df.rows :
                     i < j /\ output_df.rows[i]["email"] = output_df.rows[j]["email"] )
    /\ (pc = "done" /\ RosterDuplicate) =>
          /\ result = Returned(FALSE)
          /\ log # <<>>
          /\ LastLog = LogValidation(MsgDuplicates)

-----------------------------------------------------------------------------
(* C10 *)

\* C10: process_files always ends by returning a boolean, and the boolean is
\* True exactly when the output file was written.
C10_Returned ==
    /\ pc # "done" => (result = Unset /\ ~Written)
    /\ pc = "done" =>
          /\ result \in {Returned(TRUE), Returned(FALSE)}
          /\ (result = Returned(TRUE)) <=> Written

C10_Returns == []C10_Returned /\ <>(pc = "done")

\* A run that ended in the outermost handler, without a file
C10_Witness ==
    /\ pc = "done"
    /\ result = Returned(FALSE)
    /\ log # <<>>
    /\ LastLog.text = LogProcessing(KeyError).text
    /\ ~Written

-----------------------------------------------------------------------------
(* C7, on validate_data called on its own (SpecV) *)

OutHas(c) == c \in Range(output_df.columns)

NinjoHas(c) == c \in Range(ninjo_df.columns)

\* The lowercased emails of the candidate, and of the roster rows whose
\* active is "FALSE" in any letter case
LoweredOutput ==
    {Str(Lower(output_df.rows[i]["email"].s)) : i \in DOMAIN output_df.rows}

LoweredInactive ==
    {Str(Lower(ninjo_df.rows[k]["email"].s)) :
        k \in {m \in DOMAIN ninjo_df.rows : Upper(ninjo_df.rows[m]["active"].s) = LitFALSE}}

\* Rule k is violated
Rule1 ==
    /\ OutHas("email")
    /\ \E i, j \in DOMAIN output_df.rows :
          i # j /\ output_df.rows[i]["email"].s = output_df.rows[j]["email"].s

Rule2 ==
    /\ OutHas("email") /\ NinjoHas("email") /\ NinjoHas("active")
    /\ LoweredOutput \cap LoweredInactive # {}

Rule3 == OutHas("email") /\ LoweredOutput \ terminated_emails # {}

Rule4 == \E c \in Range(required_columns) : ~OutHas(c)

Rule5 ==
    /\ OutHas("active")
    /\ \E i \in DOMAIN output_df.rows : output_df.rows[i]["active"] # Str(LitFALSE)

NullIn(f) == OutHas(f) /\ \E i \in DOMAIN output_df.rows : output_df.rows[i][f] = NaN

Rule6 == \E k \in DOMAIN critical_fields : NullIn(critical_fields[k])

ViolatedRules ==
    {k \in 1..6 : CASE k = 1 -> Rule1 [] k = 2 -> Rule2 [] k = 3 -> Rule3
                    [] k = 4 -> Rule4 [] k = 5 -> Rule5 [] k = 6 -> Rule6}

\* The result the rules give, the lowest-numbered violated rule first
RuleResult ==
    IF Rule1 THEN <<FALSE, MsgDuplicates>>
    ELSE IF Rule2 THEN <<FALSE, MsgInactive(LoweredOutput \cap LoweredInactive)>>
    ELSE IF Rule3 THEN <<FALSE, MsgNotTerminated(LoweredOutput \ terminated_emails)>>
    ELSE IF Rule4
         THEN <<FALSE, MsgMissing(Range(required_columns) \ Range(output_df.columns))>>
    ELSE IF Rule5 THEN <<FALSE, MsgActive>>
    ELSE IF Rule6
         THEN <<FALSE, MsgNull(critical_fields[
                  CHOOSE k \in DOMAIN critical_fields :
                     /\ NullIn(critical_fields[k])
                     /\ \A m \in 1..(k - 1) : ~NullIn(critical_fields[m])])>>
    ELSE <<TRUE, MsgOk>>

\* Evaluating rule 1 or rule 2 raises a lookup error
LookupFails ==
    \/ ~OutHas("email")
    \/ ~Rule1 /\ (~NinjoHas("active") \/ ~NinjoHas("email"))

====
